---- MODULE Spec2Model ----
(***************************************************************************)
(* A model of the ezini INI file library (ezini.c, section-list variant).  *)
(*                                                                         *)
(* C strings are sequences of one-character strings.  A line buffer is a   *)
(* sequence of characters closed by the terminator NUL; the parser's       *)
(* in-place writes of '\0' are writes of NUL into that sequence and a      *)
(* char pointer is an index into it (C index i is index i + 1 here).       *)
(* A NULL pointer to a string is the value NULL.  The entry list is the    *)
(* sequence of its section nodes, each with the sequence of its key nodes; *)
(* the NULL list is the empty sequence.                                    *)
(***************************************************************************)
EXTENDS Integers, Sequences, FiniteSets, TLC

(***************************************************************************)
(* Bounds of the model.                                                    *)
(***************************************************************************)
\* longest raw line the parser is run on
MaxLineLen == 4
\* most AddEntryToList calls made on the caller's list
MaxAdds == 3
\* most GetEntryFromFile calls made on one stream
MaxCalls == 4
\* most lines of a file the merge and delete operations are run on
MaxFileLines == 3
\* most lines of a file built from the sample lines
MaxSampleLines == 5
\* most GetEntryFromFile calls made on a stream after the call that returned 0
MaxEndCalls == 2
\* most lines of a sample file read on after the call that returned 0
MaxIterLines == 4
\* most lines of a file that may hold a line with a syntax error
MaxReadLines == 3

(***************************************************************************)
(* Characters and strings.                                                 *)
(***************************************************************************)
\* the terminator '\0' of a C string
NUL == "NUL"
\* the NULL char pointer
NULL == <<"NULL">>

\* isspace() in the C locale (the vertical tab cannot be written here)
IsSpace(c) == c \in {" ", "\t", "\n", "\r", "\f"}

\* errno values; NoErr stands for "errno not set by this call"
NoErr == "0"
EINVAL == "EINVAL"
EILSEQ == "EILSEQ"
ENOENT == "ENOENT"

\* the text of a file that fopen(iniFile, "r") cannot open
NoFile == <<"NOFILE">>

\* const size_t chunkSize = 32 in GetLine
chunkSize == 32

(***************************************************************************)
(* The line buffer: pointer reads and the string utilities.                *)
(***************************************************************************)
\* the buffer malloc'ed for a line: its characters and the terminator
Buf(line) == line \o <<NUL>>

\* strlen(buf + p - 1): characters from index p up to the next terminator
RECURSIVE StrLen(_, _)
StrLen(buf, p) == IF buf[p] = NUL THEN 0 ELSE 1 + StrLen(buf, p + 1)

\* the C string a pointer into the buffer denotes
CStr(buf, p) == SubSeq(buf, p, p + StrLen(buf, p) - 1)

\* strchr(buf + p - 1, c): index of the first c before the terminator, 0 (NULL) if none
RECURSIVE StrChr(_, _, _)
StrChr(buf, p, c) ==
    IF buf[p] = c THEN p
    ELSE IF buf[p] = NUL THEN 0
    ELSE StrChr(buf, p + 1, c)

\* SkipWS: pointer to the first non-space at or after p
RECURSIVE SkipWS(_, _)
SkipWS(buf, p) == IF IsSpace(buf[p]) THEN SkipWS(buf, p + 1) ELSE p

\* DupStr: a malloc'ed copy of the string; NULL for a NULL source
DupStr(src) == src

\* while (isspace(*(end - 1))) end--;
RECURSIVE TrimHeaderEnd(_, _)
TrimHeaderEnd(buf, end) ==
    IF IsSpace(buf[end - 1]) THEN TrimHeaderEnd(buf, end - 1) ELSE end

\* TrimBack with the loop left out, to see that C1 depends on the trimming
TrimBackNot(buf, ptr) == ptr

\* while (isspace(*ptr)) ptr--;
RECURSIVE TrimBack(_, _)
TrimBack(buf, ptr) == IF IsSpace(buf[ptr]) THEN TrimBack(buf, ptr - 1) ELSE ptr

\* while (*ptr != '=') { if (*ptr == '\0') fail; ptr++; }  0 when '=' is not found
RECURSIVE FindEq(_, _)
FindEq(buf, ptr) ==
    IF buf[ptr] = "=" THEN ptr
    ELSE IF buf[ptr] = NUL THEN 0
    ELSE FindEq(buf, ptr + 1)

\* while (*ptr == ' ' || *ptr == '\t') { if (*ptr == '\0') fail; ptr++; }
\* the test for '\0' inside the loop can never be true: the loop only skips
RECURSIVE SkipBlank(_, _)
SkipBlank(buf, ptr) ==
    IF buf[ptr] = " " \/ buf[ptr] = "\t"
    THEN IF buf[ptr] = NUL THEN 0 ELSE SkipBlank(buf, ptr + 1)
    ELSE ptr

(***************************************************************************)
(* The stream: the text of the file, the read position, the EOF flag.      *)
(***************************************************************************)
NullStream == [null |-> TRUE, pos |-> 1, eof |-> FALSE]
OpenStream == [null |-> FALSE, pos |-> 1, eof |-> FALSE]

\* fgets(next, n, fp): at most n - 1 characters, stopping after a newline;
\* got = <<>> is the NULL return at end of file
RECURSIVE FgetsChars(_, _, _)
FgetsChars(text, pos, n) ==
    IF n <= 1 \/ pos > Len(text) THEN <<>>
    ELSE IF text[pos] = "\n" THEN <<"\n">>
    ELSE <<text[pos]>> \o FgetsChars(text, pos + 1, n - 1)

\* the stream after fgets returned got: EOF is set when the read ran into the end
FgetsResult(text, fp, n, got) ==
    [got |-> got,
     fp  |-> [fp EXCEPT !.pos = fp.pos + Len(got),
                        !.eof = \/ fp.eof
                                \/ /\ fp.pos + Len(got) > Len(text)
                                   /\ Len(got) < n - 1
                                   /\ (got = <<>> \/ got[Len(got)] # "\n")]]

Fgets(text, fp, n) == FgetsResult(text, fp, n, FgetsChars(text, fp.pos, n))

\* the while loop of GetLine: the line read so far grows by chunkSize
RECURSIVE GetLineLoop(_, _, _, _)
\* the body of the loop once fgets returned r
GetLineBody(text, line, lineSize, r) ==
    IF r.got = <<>> THEN [line |-> line, fp |-> r.fp]
    ELSE IF r.got[Len(r.got)] = "\n"
    THEN [line |-> line \o SubSeq(r.got, 1, Len(r.got) - 1), fp |-> r.fp]
    ELSE GetLineLoop(text, r.fp, line \o r.got, lineSize + chunkSize)

GetLineLoop(text, fp, line, lineSize) ==
    GetLineBody(text, line, lineSize, Fgets(text, fp, lineSize - Len(line)))

\* GetLine: the next line without its newline, NULL at end of file
GetLine(text, fp) ==
    IF fp.null \/ fp.eof THEN [line |-> NULL, fp |-> fp]
    ELSE GetLineLoop(text, fp, <<>>, chunkSize)

(***************************************************************************)
(* The entry structure and the parser.                                     *)
(***************************************************************************)
NullEntry == [section |-> NULL, key |-> NULL, value |-> NULL]

\* FreeEntry: the three strings are freed and the pointers set to NULL
FreeEntry(entry) == NullEntry

\* the section header branch of GetEntryFromFile once ']' was found at end:
\* the name runs from start to the terminator written at stop
HeaderCut(buf, start, stop) == DupStr(CStr([buf EXCEPT ![stop] = NUL], start))

HeaderSection(buf, ptr, end) ==
    HeaderCut(buf, SkipWS(buf, ptr + 1), TrimHeaderEnd(buf, end))

\* the loop over section names, comments and blank lines; it ends with
\* kind "eof" (line == NULL), "badsection" (the return -1 inside the loop)
\* or "keyvalue" (the break), with the buffer and ptr of the line that broke it
RECURSIVE ScanLines(_, _, _)

\* ScanHeader that leaves the entry as it is when ']' is missing, to see
\* that C9 depends on FreeEntry
ScanHeaderKeep(text, fp, entry, buf, ptr, end) ==
    IF end = 0
    THEN [kind |-> "badsection", fp |-> fp, entry |-> entry, buf |-> buf, ptr |-> ptr]
    ELSE ScanLines(text, fp, [entry EXCEPT !.section = HeaderSection(buf, ptr, end)])

\* possible new section: end is strchr(ptr, ']')
ScanHeader(text, fp, entry, buf, ptr, end) ==
    IF end = 0
    THEN [kind |-> "badsection", fp |-> fp, entry |-> FreeEntry(entry),
          buf |-> buf, ptr |-> ptr]
    ELSE ScanLines(text, fp, [entry EXCEPT !.section = HeaderSection(buf, ptr, end)])

\* ScanLine that takes a section name from a comment line that starts a
\* bracket, to see that C8 depends on comments being skipped
ScanLineComment(text, fp, entry, buf, ptr) ==
    IF buf[ptr] = NUL
    THEN ScanLines(text, fp, entry)
    ELSE IF buf[ptr] = ";" \/ buf[ptr] = "#"
    THEN ScanLines(text, fp,
             IF buf[ptr + 1] = "[" /\ StrChr(buf, ptr + 1, "]") # 0
             THEN [entry EXCEPT
                      !.section = HeaderSection(buf, ptr + 1, StrChr(buf, ptr + 1, "]"))]
             ELSE entry)
    ELSE IF buf[ptr] = "["
    THEN ScanHeader(text, fp, entry, buf, ptr, StrChr(buf, ptr, "]"))
    ELSE [kind |-> "keyvalue", fp |-> fp, entry |-> entry, buf |-> buf, ptr |-> ptr]

\* the body of the loop for the line in buf, ptr at its first non-space
ScanLine(text, fp, entry, buf, ptr) ==
    IF buf[ptr] = NUL \/ buf[ptr] = ";" \/ buf[ptr] = "#"
    THEN ScanLines(text, fp, entry)
    ELSE IF buf[ptr] = "["
    THEN ScanHeader(text, fp, entry, buf, ptr, StrChr(buf, ptr, "]"))
    ELSE [kind |-> "keyvalue", fp |-> fp, entry |-> entry, buf |-> buf, ptr |-> ptr]

\* the loop once GetLine returned g
ScanGot(text, entry, g) ==
    IF g.line = NULL
    THEN [kind |-> "eof", fp |-> g.fp, entry |-> entry, buf |-> <<NUL>>, ptr |-> 1]
    ELSE ScanLine(text, g.fp, entry, Buf(g.line), SkipWS(Buf(g.line), 1))

ScanLines(text, fp, entry) == ScanGot(text, entry, GetLine(text, fp))

\* the value: buf has the terminator of the key, vptr is the start of the
\* value, vend the last character that is no space
ValueCut(buf, vptr, vend) == DupStr(CStr([buf EXCEPT ![vend + 1] = NUL], vptr))

\* after the key was cut: vptr is where the skipping of blanks after '=' ended
KeyValueValue(buf, ptr, entry, vptr) ==
    IF vptr = 0
    THEN [result |-> -1, errno |-> EILSEQ, entry |-> FreeEntry(entry)]
    ELSE [result |-> 1, errno |-> NoErr,
          entry |-> [entry EXCEPT
                        !.key = DupStr(CStr(buf, ptr)),
                        !.value = ValueCut(buf, vptr,
                                     TrimBack(buf, vptr + StrLen(buf, vptr) - 1))]]

\* the key: '=' is at eq, kend is the last character of the key
KeyValueKey(buf, ptr, entry, eq, kend) ==
    KeyValueValue([buf EXCEPT ![kend + 1] = NUL], ptr, entry,
                  SkipBlank([buf EXCEPT ![kend + 1] = NUL], eq + 1))

\* the search for '=' ended at eq (0: the line ended first)
KeyValueEq(buf, ptr, entry, eq) ==
    IF eq = 0
    THEN [result |-> -1, errno |-> EILSEQ, entry |-> FreeEntry(entry)]
    ELSE KeyValueKey(buf, ptr, entry, eq, TrimBack(buf, eq - 1))

\* the key = value part of GetEntryFromFile on the line in buf, key starting at ptr
KeyValue(buf, ptr, entry) == KeyValueEq(buf, ptr, entry, FindEq(buf, ptr + 1))

\* the return value, errno, entry and stream for the key = value line
KeyValueReturn(fp, kv) ==
    [result |-> kv.result, errno |-> kv.errno, entry |-> kv.entry, fp |-> fp]

\* AfterScan that leaves the entry as it is at the end of the file, to see
\* that C12 depends on FreeEntry
AfterScanKeep(s) ==
    IF s.kind = "badsection"
    THEN [result |-> -1, errno |-> EILSEQ, entry |-> s.entry, fp |-> s.fp]
    ELSE IF s.kind = "eof"
    THEN [result |-> 0, errno |-> NoErr, entry |-> s.entry, fp |-> s.fp]
    ELSE KeyValueReturn(s.fp, KeyValue(s.buf, s.ptr, s.entry))

\* GetEntryFromFile after its first loop ended as s
AfterScan(s) ==
    IF s.kind = "badsection"
    THEN [result |-> -1, errno |-> EILSEQ, entry |-> s.entry, fp |-> s.fp]
    ELSE IF s.kind = "eof"
    THEN [result |-> 0, errno |-> NoErr, entry |-> FreeEntry(s.entry), fp |-> s.fp]
    ELSE KeyValueReturn(s.fp, KeyValue(s.buf, s.ptr, s.entry))

\* GetEntryFromFile(iniFile, entry); entryNull is entry == NULL
GetEntryFromFile(text, fp, entryNull, entry) ==
    IF fp.null \/ entryNull
    THEN [result |-> -1, errno |-> EINVAL, entry |-> entry, fp |-> fp]
    ELSE AfterScan(ScanLines(text, fp, entry))

(***************************************************************************)
(* The memory of one call of GetEntryFromFile.  A heap is the blocks that  *)
(* malloc returned, each with its kind and the number of free() calls on   *)
(* it, the three pointers of the entry, and whether free() got a pointer   *)
(* that is not the start of a block.  A pointer is 0 (NULL), the number of *)
(* a block, or minus the number of the line buffer it points into.         *)
(***************************************************************************)
\* the heap when the call starts: the strings the entry holds from the call
\* before are blocks 1 to 3
HeapOf(entry) ==
    [blocks |-> <<[kind |-> IF entry.section = NULL THEN "none" ELSE "string", frees |-> 0],
                  [kind |-> IF entry.key = NULL THEN "none" ELSE "string", frees |-> 0],
                  [kind |-> IF entry.value = NULL THEN "none" ELSE "string", frees |-> 0]>>,
     entry |-> [section |-> IF entry.section = NULL THEN 0 ELSE 1,
                key |-> IF entry.key = NULL THEN 0 ELSE 2,
                value |-> IF entry.value = NULL THEN 0 ELSE 3],
     bad |-> FALSE]

\* malloc: a new block, the last one of the heap
Malloc(h, kind) == [h EXCEPT !.blocks = Append(h.blocks, [kind |-> kind, frees |-> 0])]

\* free(p)
Free(h, p) ==
    IF p = 0 THEN h
    ELSE IF p < 0 THEN [h EXCEPT !.bad = TRUE]
    ELSE [h EXCEPT !.blocks[p].frees = h.blocks[p].frees + 1]

\* FreeEntry(entry) on the heap
FreeEntryMem(h) ==
    [Free(Free(Free(h, h.entry.section), h.entry.key), h.entry.value)
        EXCEPT !.entry = [section |-> 0, key |-> 0, value |-> 0]]

\* entry->section = DupStr(ptr), and the same for key and value
DupSection(h) == [Malloc(h, "string") EXCEPT !.entry.section = Len(h.blocks) + 1]
DupKey(h) == [Malloc(h, "string") EXCEPT !.entry.key = Len(h.blocks) + 1]
DupValue(h) == [Malloc(h, "string") EXCEPT !.entry.value = Len(h.blocks) + 1]

\* the end of the key = value part, line the number of the line buffer:
\* vptr = 0 is the return -1 inside the loop that skips the blanks
KeyValueValueMem(h, line, vptr) ==
    IF vptr = 0
    THEN [result |-> -1, heap |-> Free(FreeEntryMem(h), line)]
    ELSE [result |-> 1, heap |-> Free(DupValue(h), line)]

\* free(entry->value); entry->value = ptr + 1; ...; entry->key = DupStr(entry->key)
KeyValueKeyMem(h, line, buf, eq, kend) ==
    KeyValueValueMem(DupKey([Free(h, h.entry.value) EXCEPT !.entry.value = 0 - line]),
                     line, SkipBlank([buf EXCEPT ![kend + 1] = NUL], eq + 1))

\* the search for '=' ended at eq, entry->key points into the line
KeyValueEqMem(h, line, buf, eq) ==
    IF eq = 0
    THEN [result |-> -1,
          heap |-> Free(FreeEntryMem([h EXCEPT !.entry.key = 0]), line)]
    ELSE KeyValueKeyMem(h, line, buf, eq, TrimBack(buf, eq - 1))

\* free(entry->key); entry->key = ptr; and the search for '='
KeyValueMem(h, line, buf, ptr) ==
    KeyValueEqMem([Free(h, h.entry.key) EXCEPT !.entry.key = 0 - line],
                  line, buf, FindEq(buf, ptr + 1))

RECURSIVE ScanLinesMem(_, _, _)

\* possible new section
ScanHeaderMem(text, fp, h, line, end) ==
    IF end = 0
    THEN [result |-> -1, heap |-> FreeEntryMem(h)]
    ELSE ScanLinesMem(text, fp, Free(DupSection(Free(h, h.entry.section)), line))

\* the body of the first loop for the line in buf, the buffer being block line
ScanLineMem(text, fp, h, line, buf, ptr) ==
    IF buf[ptr] = NUL \/ buf[ptr] = ";" \/ buf[ptr] = "#"
    THEN ScanLinesMem(text, fp, Free(h, line))
    ELSE IF buf[ptr] = "["
    THEN ScanHeaderMem(text, fp, h, line, StrChr(buf, ptr, "]"))
    ELSE KeyValueMem(h, line, buf, ptr)

\* the loop once GetLine returned g: a line that is not NULL is a new block
ScanGotMem(text, h, g) ==
    IF g.line = NULL
    THEN [result |-> 0, heap |-> FreeEntryMem(h)]
    ELSE ScanLineMem(text, g.fp, Malloc(h, "line"), Len(h.blocks) + 1,
                     Buf(g.line), SkipWS(Buf(g.line), 1))

ScanLinesMem(text, fp, h) == ScanGotMem(text, h, GetLine(text, fp))

\* GetEntryFromFile(iniFile, entry): the return value and the heap at the return
GetEntryFromFileMem(text, fp, entryNull, entry) ==
    IF fp.null \/ entryNull
    THEN [result |-> -1, heap |-> HeapOf(entry)]
    ELSE ScanLinesMem(text, fp, HeapOf(entry))

(***************************************************************************)
(* The entry list: section nodes, each with its key nodes.                 *)
(***************************************************************************)
\* strcmp: only whether the result is 0 is used by the library
StrCmp(a, b) == IF a = b THEN 0 ELSE 1

\* NewKeyList: a one-node key list, <<>> (NULL) when a copy cannot be made
NewKeyList(key, value) ==
    IF DupStr(key) = NULL \/ DupStr(value) = NULL THEN <<>>
    ELSE <<[key |-> DupStr(key), value |-> DupStr(value)]>>

\* NewSectionList once its key list was made
NewSectionNode(section, members) ==
    IF members = <<>> THEN <<>>
    ELSE <<[section |-> DupStr(section), members |-> members]>>

\* NewSectionList: a one-node section list holding one key, <<>> (NULL) on failure
NewSectionList(section, key, value) ==
    IF DupStr(section) = NULL THEN <<>>
    ELSE NewSectionNode(section, NewKeyList(key, value))

\* the while (1) loop over the section nodes: the node it stops at and the
\* result of the last strcmp
RECURSIVE SectionWalk(_, _, _)
SectionWalk(list, section, i) ==
    IF StrCmp(section, list[i].section) = 0 THEN [at |-> i, cmp |-> 0]
    ELSE IF i = Len(list) THEN [at |-> i, cmp |-> StrCmp(section, list[i].section)]
    ELSE SectionWalk(list, section, i + 1)

\* KeyWalk that runs to the last node without comparing a key, to see that
\* C3 depends on the comparison
KeyWalkToEnd(members, key, i) == [at |-> Len(members), cmp |-> 1]

\* the while (1) loop over the key nodes of one section
RECURSIVE KeyWalk(_, _, _)
KeyWalk(members, key, i) ==
    IF StrCmp(key, members[i].key) = 0 THEN [at |-> i, cmp |-> 0]
    ELSE IF i = Len(members) THEN [at |-> i, cmp |-> StrCmp(key, members[i].key)]
    ELSE KeyWalk(members, key, i + 1)

\* ChangeValue that keeps the old value, to see that C2 depends on the store
ChangeValueNot(members, at, value) == members

\* key exists, change value: free(member->value); member->value = DupStr(value)
ChangeValue(members, at, value) ==
    [members EXCEPT ![at].value = DupStr(value)]

\* AppendKey that puts the new node first, to see that C14 depends on the
\* place of a new key
AppendKeyFront(members, node) == node \o members

\* new key, add to list: member->next = NewKeyList(key, value)
AppendKey(members, node) == members \o node

\* the section's key list after the key walk stopped as w, and the return value
AddToMembers(members, key, value, w) ==
    IF w.cmp = 0
    THEN [result |-> IF DupStr(value) = NULL THEN -1 ELSE 0,
          members |-> ChangeValue(members, w.at, value)]
    ELSE [result |-> IF NewKeyList(key, value) = <<>> THEN -1 ELSE 0,
          members |-> AppendKey(members, NewKeyList(key, value))]

\* the list with the key list of section node s replaced
PutMembers(list, s, m) ==
    [result |-> m.result, list |-> [list EXCEPT ![s].members = m.members],
     fault |-> FALSE]

\* the branch of AddEntryToList for a section that is already in the list
AddToSection(list, s, key, value) ==
    PutMembers(list, s,
        AddToMembers(list[s].members, key, value, KeyWalk(list[s].members, key, 1)))

\* add the section to the list with this key and value: next->next = NewSectionList(...)
AppendSection(list, node) ==
    [result |-> 0, list |-> list \o node, fault |-> FALSE]

\* AddEntryToList after the section walk stopped as w
AddAtSection(list, section, key, value, w) ==
    IF w.cmp = 0
    THEN AddToSection(list, w.at, key, value)
    ELSE AppendSection(list, NewSectionList(section, key, value))

\* handle empty list: *list = NewSectionList(section, key, value)
AddFirst(node) ==
    [result |-> IF node = <<>> THEN -1 ELSE 0, list |-> node, fault |-> FALSE]

\* AddEntryToList(&list, section, key, value): the return value and the list
\* afterwards; fault is the strcmp of a NULL string
AddEntryToList(list, section, key, value) ==
    IF list = <<>>
    THEN AddFirst(NewSectionList(section, key, value))
    ELSE IF section = NULL \/ key = NULL
    THEN [result |-> -1, list |-> list, fault |-> TRUE]
    ELSE AddAtSection(list, section, key, value, SectionWalk(list, section, 1))

(***************************************************************************)
(* AddEntryToList when malloc may return NULL.  The calls of malloc that   *)
(* one call of AddEntryToList makes are counted from 1; fail is the number *)
(* of the call that returns NULL, 0 when none does.                        *)
(***************************************************************************)
\* DupStr whose malloc is call n
DupStrAlloc(src, n, fail) == IF src = NULL \/ n = fail THEN NULL ELSE src

\* NewKeyList whose malloc of the node is call n; the copies of key and
\* value are calls n + 1 and n + 2
NewKeyListAlloc(key, value, n, fail) ==
    IF n = fail THEN <<>>
    ELSE IF DupStrAlloc(key, n + 1, fail) = NULL THEN <<>>
    ELSE IF DupStrAlloc(value, n + 2, fail) = NULL THEN <<>>
    ELSE <<[key |-> DupStrAlloc(key, n + 1, fail),
            value |-> DupStrAlloc(value, n + 2, fail)]>>

\* NewSectionList: the node is call 1, the copy of section call 2, the key
\* list calls 3 to 5
NewSectionListAlloc(section, key, value, fail) ==
    IF fail = 1 THEN <<>>
    ELSE IF DupStrAlloc(section, 2, fail) = NULL THEN <<>>
    ELSE NewSectionNode(section, NewKeyListAlloc(key, value, 3, fail))

\* the key list after the key walk stopped as w: the copy of value is call 1,
\* the new key list calls 1 to 3
AddToMembersAlloc(members, key, value, w, fail) ==
    IF w.cmp = 0
    THEN [result |-> IF DupStrAlloc(value, 1, fail) = NULL THEN -1 ELSE 0,
          members |-> ChangeValue(members, w.at, DupStrAlloc(value, 1, fail))]
    ELSE [result |-> IF NewKeyListAlloc(key, value, 1, fail) = <<>> THEN -1 ELSE 0,
          members |-> AppendKey(members, NewKeyListAlloc(key, value, 1, fail))]

AddToSectionAlloc(list, s, key, value, fail) ==
    PutMembers(list, s,
        AddToMembersAlloc(list[s].members, key, value,
                          KeyWalk(list[s].members, key, 1), fail))

AddAtSectionAlloc(list, section, key, value, w, fail) ==
    IF w.cmp = 0
    THEN AddToSectionAlloc(list, w.at, key, value, fail)
    ELSE AppendSection(list, NewSectionListAlloc(section, key, value, fail))

AddEntryToListAlloc(list, section, key, value, fail) ==
    IF list = <<>>
    THEN AddFirst(NewSectionListAlloc(section, key, value, fail))
    ELSE IF section = NULL \/ key = NULL
    THEN [result |-> -1, list |-> list, fault |-> TRUE]
    ELSE AddAtSectionAlloc(list, section, key, value,
                           SectionWalk(list, section, 1), fail)

\* the number of malloc calls of AddEntryToList when none returns NULL
Mallocs(list, section, key) ==
    IF list = <<>> \/ SectionWalk(list, section, 1).cmp # 0 THEN 5
    ELSE IF KeyWalk(list[SectionWalk(list, section, 1).at].members, key, 1).cmp = 0
    THEN 1
    ELSE 3

(***************************************************************************)
(* Writing the file.                                                       *)
(***************************************************************************)
\* WriteMembers that writes key=value without the blanks, to see that C13
\* depends on the format of the line
RECURSIVE WriteMembersTight(_, _)
WriteMembersTight(members, i) ==
    IF i > Len(members) THEN <<>>
    ELSE members[i].key \o <<"=">> \o members[i].value \o <<"\n">>
         \o WriteMembersTight(members, i + 1)

\* fprintf(fp, "%s = %s\n", members->key, members->value) for each key node
RECURSIVE WriteMembers(_, _)
WriteMembers(members, i) ==
    IF i > Len(members) THEN <<>>
    ELSE members[i].key \o <<" ", "=", " ">> \o members[i].value \o <<"\n">>
         \o WriteMembers(members, i + 1)

\* the while (section != NULL) loop of MakeINIFile
RECURSIVE WriteSections(_, _)
WriteSections(list, i) ==
    IF i > Len(list) THEN <<>>
    ELSE <<"[">> \o list[i].section \o <<"]", "\n">>
         \o WriteMembers(list[i].members, 1) \o <<"\n">>
         \o WriteSections(list, i + 1)

\* MakeINIFile(iniFile, list) on a file whose text is old
MakeINIFile(old, list) ==
    IF list = <<>>
    THEN [result |-> -1, errno |-> EINVAL, text |-> old]
    ELSE [result |-> 0, errno |-> NoErr, text |-> WriteSections(list, 1)]

(***************************************************************************)
(* Read-modify-write of the file.                                          *)
(***************************************************************************)
\* while ((result = GetEntryFromFile(fp, &entry)) > 0) AddEntryToList(&merged, ...)
RECURSIVE ReadLoop(_, _, _, _)

\* the loop once AddEntryToList returned a for the entry of r
ReadAdded(text, merged, r, a) ==
    IF a.fault
    THEN [result |-> r.result, errno |-> r.errno, list |-> merged, fault |-> TRUE]
    ELSE ReadLoop(text, r.fp, r.entry, a.list)

\* the loop once GetEntryFromFile returned r
ReadGot(text, merged, r) ==
    IF r.result > 0
    THEN ReadAdded(text, merged, r,
             AddEntryToList(merged, r.entry.section, r.entry.key, r.entry.value))
    ELSE [result |-> r.result, errno |-> r.errno, list |-> merged, fault |-> FALSE]

ReadLoop(text, fp, entry, merged) ==
    ReadGot(text, merged, GetEntryFromFile(text, fp, FALSE, entry))

\* the two nested loops of AddEntryToFile that add the entries of list to merged
RECURSIVE MergeMembers(_, _, _, _)
MergeAdded(section, members, i, merged, a) ==
    IF a.fault THEN [list |-> merged, fault |-> TRUE]
    ELSE MergeMembers(a.list, section, members, i + 1)

MergeMembers(merged, section, members, i) ==
    IF i > Len(members) THEN [list |-> merged, fault |-> FALSE]
    ELSE MergeAdded(section, members, i, merged,
             AddEntryToList(merged, section, members[i].key, members[i].value))

RECURSIVE MergeLoop(_, _, _)
MergeNext(list, i, m) ==
    IF m.fault THEN m ELSE MergeLoop(m.list, list, i + 1)

MergeLoop(merged, list, i) ==
    IF i > Len(list) THEN [list |-> merged, fault |-> FALSE]
    ELSE MergeNext(list, i, MergeMembers(merged, list[i].section, list[i].members, 1))

\* FreeList(list) reads list->next first: a NULL list is a NULL dereference
FreeListFault(list) == list = <<>>

\* what a call of FreeList(list) is applied to: an existing list or NULL
FreeList(list) == IF list = <<>> THEN "NULL" ELSE "list"

\* result = MakeINIFile(iniFile, list); FreeList(list); return result;
WriteAndFree(list, w) ==
    [result |-> w.result, errno |-> w.errno, text |-> w.text,
     fault |-> FreeListFault(list), held |-> list # <<>>, free |-> FreeList(list)]

\* AddEntryToFile once the entries of list were added to merged
AddMerged(old, m) ==
    IF m.fault
    THEN [result |-> -1, errno |-> NoErr, text |-> old, fault |-> TRUE,
          held |-> m.list # <<>>, free |-> "none"]
    ELSE WriteAndFree(m.list, MakeINIFile(old, m.list))

\* the read phase ended as r: if (result < 0) { FreeList(list); return -1; }
ReadFailed(old, r) ==
    [result |-> -1, errno |-> r.errno, text |-> old,
     fault |-> r.fault \/ FreeListFault(r.list), held |-> r.list # <<>>,
     free |-> IF r.fault THEN "none" ELSE FreeList(r.list)]

\* AddEntryToFile once the file was read as r
AddRead(old, list, r) ==
    IF r.fault \/ r.result < 0 THEN ReadFailed(old, r)
    ELSE AddMerged(old, MergeLoop(r.list, list, 1))

\* AddEntryToFile(iniFile, list) on a file whose text is old
AddEntryToFile(old, list) ==
    IF list = <<>>
    THEN [result |-> -1, errno |-> EINVAL, text |-> old, fault |-> FALSE,
          held |-> FALSE, free |-> "none"]
    ELSE IF old = NoFile
    THEN [result |-> -1, errno |-> ENOENT, text |-> old, fault |-> FALSE,
          held |-> FALSE, free |-> "none"]
    ELSE AddRead(old, list, ReadLoop(old, OpenStream, NullEntry, <<>>))

\* the read loop of DeleteEntryFromFile: entries that match section and key are dropped
RECURSIVE DeleteLoop(_, _, _, _, _, _)

DeleteAdded(text, list, section, key, r, a) ==
    IF a.fault
    THEN [result |-> r.result, errno |-> r.errno, list |-> list, fault |-> TRUE]
    ELSE DeleteLoop(text, r.fp, r.entry, a.list, section, key)

\* the loop once GetEntryFromFile returned r
DeleteGot(text, list, section, key, r) ==
    IF r.result > 0
    THEN IF r.entry.section = NULL
         THEN [result |-> r.result, errno |-> r.errno, list |-> list, fault |-> TRUE]
         ELSE IF StrCmp(r.entry.section, section) # 0 \/ StrCmp(r.entry.key, key) # 0
         THEN DeleteAdded(text, list, section, key, r,
                  AddEntryToList(list, r.entry.section, r.entry.key, r.entry.value))
         ELSE DeleteLoop(text, r.fp, r.entry, list, section, key)
    ELSE [result |-> r.result, errno |-> r.errno, list |-> list, fault |-> FALSE]

DeleteLoop(text, fp, entry, list, section, key) ==
    DeleteGot(text, list, section, key, GetEntryFromFile(text, fp, FALSE, entry))

\* DeleteEntryFromFile once the file was read as r
DeleteRead(old, r) ==
    IF r.fault \/ r.result < 0 THEN ReadFailed(old, r)
    ELSE WriteAndFree(r.list, MakeINIFile(old, r.list))

\* DeleteEntryFromFile(iniFile, section, key) on a file whose text is old
DeleteEntryFromFile(old, section, key) ==
    IF section = NULL \/ key = NULL
    THEN [result |-> -1, errno |-> EINVAL, text |-> old, fault |-> FALSE,
          held |-> FALSE, free |-> "none"]
    ELSE IF old = NoFile
    THEN [result |-> -1, errno |-> ENOENT, text |-> old, fault |-> FALSE,
          held |-> FALSE, free |-> "none"]
    ELSE DeleteRead(old, DeleteLoop(old, OpenStream, NullEntry, <<>>, section, key))

(***************************************************************************)
(* The state.                                                              *)
(***************************************************************************)
VARIABLES
    list,    \* the caller's entry list (ini_entry_list_t list)
    file,    \* the text of the INI file
    back,    \* the list the caller reads the written file back into
    fp,      \* the caller's stream on the file (FILE *fp)
    entry,   \* the caller's ini_entry_t
    calls,   \* what each GetEntryFromFile call on fp returned, in order
    op,      \* the last library call: its name, arguments, result, the state before it
    errno,   \* errno
    fault,   \* the process dereferenced a NULL pointer
    nops,    \* number of library calls made by the caller
    procs    \* the calls of AddEntryToFile and DeleteEntryFromFile that run side by side

vars == <<list, file, back, fp, entry, calls, op, errno, fault, nops, procs>>

SetErrno(e) == IF e = NoErr THEN errno ELSE e

(***************************************************************************)
(* Inputs.                                                                 *)
(***************************************************************************)
\* every sequence over S of length at most n
SeqsUpTo(S, n) == UNION {[1..k -> S] : k \in 0..n}

\* the lines, each followed by a newline
RECURSIVE JoinLines(_)
JoinLines(ls) ==
    IF ls = <<>> THEN <<>> ELSE Head(ls) \o <<"\n">> \o JoinLines(Tail(ls))

\* strings the caller passes to AddEntryToList: plain ones and ones that hold
\* a ']', an '=', white space at an end, or nothing
ListArgs ==
    {[section |-> s, key |-> k, value |-> v] :
        s \in {<<"a">>, <<>>}, k \in {<<"k">>, <<"j", " ", "]">>},
        v \in {<<"1">>, <<"[", "=", " ", ";">>}}
    \cup {[section |-> <<"a", "]">>, key |-> <<"k">>, value |-> <<"1">>],
          [section |-> <<"a">>, key |-> <<"k", "=">>, value |-> <<"1">>],
          [section |-> <<"a">>, key |-> <<"k">>, value |-> <<"1", " ">>],
          [section |-> <<" ">>, key |-> <<";">>, value |-> <<>>]}

\* characters of the raw lines the parser is run on
LineChars == {"a", " ", "\r", "=", "[", "]"}
RawLines == SeqsUpTo(LineChars, MaxLineLen)

\* a raw line after the header [s], before or after the line k=v (no newline
\* at the end of the file)
RawFiles ==
    {<<"[", "s", "]", "\n">> \o raw \o <<"\n", "k", "=", "v">> : raw \in RawLines}
      \cup {<<"[", "s", "]", "\n", "k", "=", "v", "\n">> \o raw : raw \in RawLines}

\* sample lines: headers, key/value lines, comments, a blank line
SampleLines ==
    {<<"[", "a", "]">>, <<"[", "b", "]">>, <<"x", "=", "1">>,
     <<";", "c">>, <<"#", "[", "b", "]">>, <<>>}
SampleFiles == {JoinLines(ls) : ls \in SeqsUpTo(SampleLines, MaxSampleLines)}

\* files with a key = value line about as long as the chunk GetLine reads at
\* a time, or longer than two chunks
Ones(n) == [i \in 1..n |-> "1"]
LongFiles ==
    {<<"[", "a", "]", "\n", "x", "=">> \o Ones(n) \o <<"\n", "y", "=", "1">> :
        n \in ((chunkSize - 4)..(chunkSize + 1)) \cup {2 * chunkSize + 1}}

\* files the merge and delete operations are run on
FileLines ==
    {<<"[", "a", "]">>, <<"[", "b", "]">>, <<"[", " ", "]">>, <<"[", "]">>,
     <<"x", "=", "1">>, <<"x", " ", "=", " ", "2">>, <<"y", "=", "3">>, <<";", "c">>}
\* the lines that may come first in such a file: none, or the section [] with x=1
FirstLines == {<<>>, <<"[", "]", "\n", "x", "=", "1", "\n">>}
DiskFiles ==
    {first \o JoinLines(ls) : first \in FirstLines, ls \in SeqsUpTo(FileLines, MaxFileLines)}

\* lists the caller passes to AddEntryToFile, built with AddEntryToList
RECURSIVE BuildList(_, _, _)
BuildList(l, args, i) ==
    IF i > Len(args) THEN l
    ELSE BuildList(AddEntryToList(l, args[i].section, args[i].key, args[i].value).list,
                   args, i + 1)
NewArgs ==
    {[section |-> s, key |-> k, value |-> v] :
        s \in {<<"a">>, <<"c">>, <<>>}, k \in {<<"x">>, <<"z">>}, v \in {<<"9">>}}
NewLists == {BuildList(<<>>, a, 1) : a \in SeqsUpTo(NewArgs, 2)}

DeleteArgs ==
    {[section |-> s, key |-> k] :
        s \in {<<"a">>, <<"b">>, <<>>, <<"]">>}, k \in {<<"x">>, <<"y">>}}

(***************************************************************************)
(* The caller builds a list, writes it and reads the file back.            *)
(***************************************************************************)
NoOp == [name |-> "none", result |-> 0]

Init ==
    /\ list = <<>>
    /\ file = <<>>
    /\ back = <<>>
    /\ fp = NullStream
    /\ entry = NullEntry
    /\ calls = <<>>
    /\ op = NoOp
    /\ errno = NoErr
    /\ fault = FALSE
    /\ nops = 0
    /\ procs = <<>>

\* the caller's state after AddEntryToList(&list, t.section, t.key, t.value) returned a
AddEntryToListDone(t, a) ==
    /\ list' = a.list
    /\ fault' = a.fault
    /\ op' = [name |-> "AddEntryToList", section |-> t.section, key |-> t.key,
              value |-> t.value, result |-> a.result, preList |-> list]
    /\ calls' = Append(calls, [section |-> t.section, key |-> t.key,
                               value |-> t.value, result |-> a.result])

CallAddEntryToList ==
    /\ op.name \in {"none", "AddEntryToList"}
    /\ nops < MaxAdds
    /\ \E t \in ListArgs :
          AddEntryToListDone(t, AddEntryToList(list, t.section, t.key, t.value))
    /\ nops' = nops + 1
    /\ UNCHANGED <<file, back, fp, entry, errno, procs>>

MakeINIFileDone(w) ==
    /\ file' = w.text
    /\ errno' = SetErrno(w.errno)
    /\ op' = [name |-> "MakeINIFile", result |-> w.result]

CallMakeINIFile ==
    /\ op.name \in {"none", "AddEntryToList"}
    /\ MakeINIFileDone(MakeINIFile(file, list))
    /\ UNCHANGED <<list, back, fp, entry, calls, fault, nops, procs>>

ReadBackDone(r) ==
    /\ back' = r.list
    /\ errno' = SetErrno(r.errno)
    /\ fault' = r.fault
    /\ op' = [name |-> "ReadBack", result |-> r.result]

\* the written file is read into a fresh list, entry by entry
ReadBack ==
    /\ op.name = "MakeINIFile"
    /\ op.result = 0
    /\ ReadBackDone(ReadLoop(file, OpenStream, NullEntry, <<>>))
    /\ UNCHANGED <<list, file, fp, entry, calls, nops, procs>>

Next == CallAddEntryToList \/ CallMakeINIFile \/ ReadBack

Spec == Init /\ [][Next]_vars

(***************************************************************************)
(* The caller builds a list while malloc may return NULL.                  *)
(***************************************************************************)
AllocArgs ==
    {[section |-> s, key |-> k, value |-> v] :
        s \in {<<"a">>, <<"b">>}, k \in {<<"k">>, <<"j">>}, v \in {<<"1">>, <<"2">>}}

AddEntryToListAllocDone(t, fail, a) ==
    /\ list' = a.list
    /\ fault' = a.fault
    /\ op' = [name |-> "AddEntryToList", section |-> t.section, key |-> t.key,
              value |-> t.value, result |-> a.result, preList |-> list,
              fail |-> fail]
    /\ calls' = Append(calls, [section |-> t.section, key |-> t.key,
                               value |-> t.value, result |-> a.result])

CallAddEntryToListAlloc ==
    /\ nops < MaxAdds
    /\ \E t \in AllocArgs :
          \E fail \in 0..Mallocs(list, t.section, t.key) :
              AddEntryToListAllocDone(t, fail,
                  AddEntryToListAlloc(list, t.section, t.key, t.value, fail))
    /\ nops' = nops + 1
    /\ UNCHANGED <<file, back, fp, entry, errno, procs>>

NextAlloc == CallAddEntryToListAlloc

SpecAlloc == Init /\ [][NextAlloc]_vars

(***************************************************************************)
(* The caller iterates over a file with GetEntryFromFile.                  *)
(***************************************************************************)
\* the line that ends just before position pos of the text
RECURSIVE LineStart(_, _)
LineStart(text, p) ==
    IF p = 0 \/ text[p] = "\n" THEN p + 1 ELSE LineStart(text, p - 1)
LineBefore(text, pos) ==
    LET stop == IF pos > 1 /\ pos - 1 <= Len(text) /\ text[pos - 1] = "\n"
                THEN pos - 2 ELSE pos - 1
    IN SubSeq(text, LineStart(text, stop), stop)

InitParse ==
    /\ list = <<>>
    /\ file \in RawFiles \cup SampleFiles \cup LongFiles
    /\ back = <<>>
    /\ fp = OpenStream
    /\ entry = NullEntry
    /\ calls = <<>>
    /\ op = NoOp
    /\ errno = NoErr
    /\ fault = FALSE
    /\ nops = 0
    /\ procs = <<>>

GetEntryFromFileDone(r, m) ==
    /\ fp' = r.fp
    /\ entry' = r.entry
    /\ errno' = SetErrno(r.errno)
    /\ calls' = Append(calls, [result |-> r.result, errno |-> r.errno,
                               entry |-> r.entry,
                               from |-> fp.pos, to |-> r.fp.pos,
                               line |-> LineBefore(file, r.fp.pos)])
    /\ op' = [name |-> "GetEntryFromFile", result |-> r.result, mem |-> m]

\* the caller's loop: while ((result = GetEntryFromFile(fp, &entry)) > 0)
CallGetEntryFromFile ==
    /\ nops < MaxCalls
    /\ op.name = "GetEntryFromFile" => op.result > 0
    /\ GetEntryFromFileDone(GetEntryFromFile(file, fp, FALSE, entry),
                            GetEntryFromFileMem(file, fp, FALSE, entry))
    /\ nops' = nops + 1
    /\ UNCHANGED <<list, file, back, fault, procs>>

NextParse == CallGetEntryFromFile

SpecParse == InitParse /\ [][NextParse]_vars

(***************************************************************************)
(* The caller goes on calling GetEntryFromFile on a stream that returned 0.*)
(***************************************************************************)
\* the files read: the raw ones, the long ones and the shorter sample files
IterFiles ==
    RawFiles \cup LongFiles
      \cup {JoinLines(ls) : ls \in SeqsUpTo(SampleLines, MaxIterLines)}

InitIter ==
    /\ list = <<>>
    /\ file \in IterFiles
    /\ back = <<>>
    /\ fp = OpenStream
    /\ entry = NullEntry
    /\ calls = <<>>
    /\ op = NoOp
    /\ errno = NoErr
    /\ fault = FALSE
    /\ nops = 0
    /\ procs = <<>>

\* the calls made so far that returned 0
EndCalls == Cardinality({i \in 1..Len(calls) : calls[i].result = 0})

CallGetEntryFromFileAgain ==
    /\ op.name = "GetEntryFromFile"
    /\ op.result = 0
    /\ EndCalls <= MaxEndCalls
    /\ GetEntryFromFileDone(GetEntryFromFile(file, fp, FALSE, entry),
                            GetEntryFromFileMem(file, fp, FALSE, entry))
    /\ nops' = nops + 1
    /\ UNCHANGED <<list, file, back, fault, procs>>

NextIter == CallGetEntryFromFile \/ CallGetEntryFromFileAgain

SpecIter == InitIter /\ [][NextIter]_vars

(***************************************************************************)
(* The caller merges a list into a file on disk or deletes an entry of it. *)
(***************************************************************************)
InitFile ==
    /\ list \in NewLists
    /\ file \in DiskFiles
    /\ back = <<>>
    /\ fp = NullStream
    /\ entry = NullEntry
    /\ calls = <<>>
    /\ op = NoOp
    /\ errno = NoErr
    /\ fault = FALSE
    /\ nops = 0
    /\ procs = <<>>

AddEntryToFileDone(r) ==
    /\ file' = r.text
    /\ errno' = SetErrno(r.errno)
    /\ fault' = r.fault
    /\ op' = [name |-> "AddEntryToFile", result |-> r.result, preFile |-> file,
              held |-> r.held, free |-> r.free]

CallAddEntryToFile ==
    /\ nops = 0
    /\ AddEntryToFileDone(AddEntryToFile(file, list))
    /\ nops' = nops + 1
    /\ UNCHANGED <<list, back, fp, entry, calls, procs>>

DeleteEntryFromFileDone(d, r) ==
    /\ file' = r.text
    /\ errno' = SetErrno(r.errno)
    /\ fault' = r.fault
    /\ op' = [name |-> "DeleteEntryFromFile", section |-> d.section,
              key |-> d.key, result |-> r.result, preFile |-> file,
              held |-> r.held, free |-> r.free]

CallDeleteEntryFromFile ==
    /\ nops = 0
    /\ \E d \in DeleteArgs :
          DeleteEntryFromFileDone(d, DeleteEntryFromFile(file, d.section, d.key))
    /\ nops' = nops + 1
    /\ UNCHANGED <<list, back, fp, entry, calls, procs>>

NextFile == CallAddEntryToFile \/ CallDeleteEntryFromFile

SpecFile == InitFile /\ [][NextFile]_vars

(***************************************************************************)
(* AddEntryToFile or DeleteEntryFromFile on a file that may be missing or  *)
(* hold a line that is no header, no comment and no key = value line.      *)
(***************************************************************************)
ReadLines ==
    {<<"[", "a", "]">>, <<"x", "=", "1">>, <<"y", "=", "3">>, <<";", "c">>,
     <<"[", "a">>, <<"x">>}
ReadFiles == {NoFile} \cup {JoinLines(ls) : ls \in SeqsUpTo(ReadLines, MaxReadLines)}

InitRead ==
    /\ list \in NewLists
    /\ file \in ReadFiles
    /\ back = <<>>
    /\ fp = NullStream
    /\ entry = NullEntry
    /\ calls = <<>>
    /\ op = NoOp
    /\ errno = NoErr
    /\ fault = FALSE
    /\ nops = 0
    /\ procs = <<>>

SpecRead == InitRead /\ [][NextFile]_vars

(***************************************************************************)
(* Two calls of AddEntryToFile or DeleteEntryFromFile run side by side on  *)
(* one file.  Each has its own stream, entry and list; a step is one open  *)
(* of the file, one pass of the read loop or one fprintf.                  *)
(***************************************************************************)
\* fopen that leaves the text of the file in place, to see that C20 depends
\* on the file being cut when it is opened for writing
FopenWKeep(text) == text

\* fopen(iniFile, "w"): the file is cut to length zero
FopenW(text) == <<>>

\* the text of the file after chunk was written at position pos of a stream;
\* a gap between the end of the file and pos is filled with zero bytes
RECURSIVE Zeros(_)
Zeros(n) == IF n <= 0 THEN <<>> ELSE <<NUL>> \o Zeros(n - 1)
WriteAt(text, pos, chunk) ==
    IF pos > Len(text) THEN text \o Zeros(pos - 1 - Len(text)) \o chunk
    ELSE SubSeq(text, 1, pos - 1) \o chunk
         \o SubSeq(text, pos + Len(chunk), Len(text))

\* what the fprintf calls of MakeINIFile write, one element for each call
RECURSIVE PrintMembers(_, _)
PrintMembers(members, i) ==
    IF i > Len(members) THEN <<>>
    ELSE <<members[i].key \o <<" ", "=", " ">> \o members[i].value \o <<"\n">>>>
         \o PrintMembers(members, i + 1)

RECURSIVE PrintSections(_, _)
PrintSections(l, i) ==
    IF i > Len(l) THEN <<>>
    ELSE <<(<<"[">> \o l[i].section \o <<"]", "\n">>)>>
         \o PrintMembers(l[i].members, 1) \o <<(<<"\n">>)>>
         \o PrintSections(l, i + 1)

\* the calls that run side by side and the files they run on
RaceOps ==
    {[name |-> "AddEntryToFile", list |-> BuildList(<<>>, <<t>>, 1),
      section |-> NULL, key |-> NULL] :
        t \in {[section |-> <<"a">>, key |-> <<"x">>, value |-> <<"9">>],
               [section |-> <<"c">>, key |-> <<"z">>, value |-> <<"9">>]}}
    \cup {[name |-> "DeleteEntryFromFile", list |-> <<>>,
           section |-> d[1], key |-> d[2]] :
              d \in {<<(<<"a">>), (<<"x">>)>>, <<(<<"b">>), (<<"y">>)>>}}
RaceFiles ==
    {JoinLines(<<(<<"[", "a", "]">>), (<<"x", "=", "1">>), (<<"[", "b", "]">>),
                 (<<"y", "=", "3">>)>>),
     JoinLines(<<(<<"[", "a", "]">>), (<<"x", "=", "1">>), (<<"y", "=", "3">>)>>)}

\* a call before its first step: the arguments and the local variables
\* fp, entry, merged / list (store), result; out is what MakeINIFile has
\* still to write, wpos the position of its stream, seen the entries that
\* GetEntryFromFile has returned to this call
NewProc(a) ==
    [pc |-> "start", name |-> a.name, list |-> a.list, section |-> a.section,
     key |-> a.key, fp |-> NullStream, entry |-> NullEntry, store |-> <<>>,
     seen |-> <<>>, out |-> <<>>, wpos |-> 1, result |-> 0, fault |-> FALSE]

\* op in this specification: the last step, the call that wrote last (0: none),
\* whether a call opened or wrote the file while the other was writing it,
\* whether a call opened or wrote the file while the other was reading it
NoWrite == [name |-> "none", result |-> 0, last |-> 0, overlap |-> FALSE, raced |-> FALSE]

InitRace ==
    /\ list = <<>>
    /\ file \in RaceFiles
    /\ back = <<>>
    /\ fp = NullStream
    /\ entry = NullEntry
    /\ calls = <<>>
    /\ op = NoWrite
    /\ errno = NoErr
    /\ fault = FALSE
    /\ nops = 0
    /\ procs \in {<<NewProc(a), NewProc(b)>> : a, b \in RaceOps}

\* the other call
Other(p) == 3 - p

\* op after call p opened the file for writing or wrote to it
WriteEvent(p) ==
    [op EXCEPT !.name = "write", !.last = p,
               !.overlap = op.overlap \/ procs[Other(p)].pc = "write",
               !.raced = op.raced \/ procs[Other(p)].pc \in {"read", "closed"}]

\* fp = fopen(iniFile, "r")
FopenR(p) ==
    /\ procs[p].pc = "start"
    /\ procs' = [procs EXCEPT ![p].pc = "read", ![p].fp = OpenStream]
    /\ UNCHANGED <<list, file, back, fp, entry, calls, op, errno, fault, nops>>

\* the call ends in a NULL dereference
Crash(q) == [q EXCEPT !.pc = "done", !.fault = TRUE]

\* the entry of r is one the call hands to AddEntryToList
Keeps(q, r) ==
    \/ q.name = "AddEntryToFile"
    \/ StrCmp(r.entry.section, q.section) # 0
    \/ StrCmp(r.entry.key, q.key) # 0

\* the call after AddEntryToList returned a for the entry of r
Stored(q, r, a) ==
    IF a.fault THEN Crash(q)
    ELSE [q EXCEPT !.fp = r.fp, !.entry = r.entry, !.store = a.list,
                   !.seen = Append(q.seen, r.entry)]

\* one pass of the read loop once GetEntryFromFile returned r; the loop
\* ends with fclose(fp)
Got(q, r) ==
    IF r.result > 0
    THEN IF q.name = "DeleteEntryFromFile" /\ r.entry.section = NULL
         THEN Crash(q)
         ELSE IF Keeps(q, r)
         THEN Stored(q, r, AddEntryToList(q.store, r.entry.section,
                                          r.entry.key, r.entry.value))
         ELSE [q EXCEPT !.fp = r.fp, !.entry = r.entry,
                        !.seen = Append(q.seen, r.entry)]
    ELSE [q EXCEPT !.pc = "closed", !.fp = NullStream, !.entry = r.entry,
                   !.result = r.result]

ReadEntryDone(p, q) ==
    /\ procs' = [procs EXCEPT ![p] = q]
    /\ UNCHANGED <<list, file, back, fp, entry, calls, op, errno, fault, nops>>

ReadEntry(p) ==
    /\ procs[p].pc = "read"
    /\ ReadEntryDone(p, Got(procs[p],
           GetEntryFromFile(file, procs[p].fp, FALSE, procs[p].entry)))

\* MakeINIFile up to its fopen, for the list of m: a NULL list is refused
\* and FreeList(NULL) follows
Ready(q, m) ==
    IF m.fault THEN Crash(q)
    ELSE IF m.list = <<>> THEN [q EXCEPT !.pc = "done", !.result = -1, !.fault = TRUE]
    ELSE [q EXCEPT !.pc = "write", !.store = m.list,
                   !.out = PrintSections(m.list, 1), !.wpos = 1]

\* the call after fclose(fp): the error return, or the merge and the start
\* of MakeINIFile
Closed(q) ==
    IF q.result < 0
    THEN [q EXCEPT !.pc = "done", !.result = -1, !.fault = FreeListFault(q.store)]
    ELSE IF q.name = "AddEntryToFile"
    THEN Ready(q, MergeLoop(q.store, q.list, 1))
    ELSE Ready(q, [list |-> q.store, fault |-> FALSE])

AfterReadDone(p, q) ==
    /\ procs' = [procs EXCEPT ![p] = q]
    /\ file' = IF q.pc = "write" THEN FopenW(file) ELSE file
    /\ op' = IF q.pc = "write" THEN WriteEvent(p) ELSE op
    /\ UNCHANGED <<list, back, fp, entry, calls, errno, fault, nops>>

AfterRead(p) ==
    /\ procs[p].pc = "closed"
    /\ AfterReadDone(p, Closed(procs[p]))

\* one fprintf of MakeINIFile; fclose and FreeList follow the last one
Fprintf(p) ==
    /\ procs[p].pc = "write"
    /\ file' = WriteAt(file, procs[p].wpos, Head(procs[p].out))
    /\ procs' = [procs EXCEPT ![p].out = Tail(procs[p].out),
                              ![p].wpos = procs[p].wpos + Len(Head(procs[p].out)),
                              ![p].pc = IF Tail(procs[p].out) = <<>>
                                        THEN "done" ELSE "write",
                              ![p].result = 0]
    /\ op' = WriteEvent(p)
    /\ UNCHANGED <<list, back, fp, entry, calls, errno, fault, nops>>

NextRace ==
    \E p \in 1..2 : FopenR(p) \/ ReadEntry(p) \/ AfterRead(p) \/ Fprintf(p)

SpecRace == InitRace /\ [][NextRace]_vars

(***************************************************************************)
(* What the claims speak of.                                               *)
(***************************************************************************)
\* the (section, key, value) triples of a list
EntrySet(l) ==
    UNION {{<<l[i].section, l[i].members[j].key, l[i].members[j].value>> :
               j \in 1..Len(l[i].members)} : i \in 1..Len(l)}

\* the (section, key) pairs of a set of triples
PairsOf(es) == {<<e[1], e[2]>> : e \in es}

\* the key nodes of a list, as (section node, key node) positions
Nodes(l) == UNION {{<<i, j>> : j \in 1..Len(l[i].members)} : i \in 1..Len(l)}
NumEntries(l) == Cardinality(Nodes(l))

\* the nodes of a list that hold the pair (section, key)
NodesOf(l, section, key) ==
    {n \in Nodes(l) : l[n[1]].section = section /\ l[n[1]].members[n[2]].key = key}

Has(x, c) == \E i \in 1..Len(x) : x[i] = c
NoEdgeSpace(x) == x = <<>> \/ (~IsSpace(x[1]) /\ ~IsSpace(x[Len(x)]))

\* strings the file format can hold: a section name without ']', a key that
\* is not empty, holds no '=' and does not start a comment or a header, a
\* value that is not empty; no newline, no white space at either end
PlainSection(x) == NoEdgeSpace(x) /\ ~Has(x, "]") /\ ~Has(x, "\n")
PlainKey(x) ==
    /\ x # <<>>
    /\ NoEdgeSpace(x)
    /\ ~Has(x, "=") /\ ~Has(x, "\n")
    /\ x[1] \notin {"[", ";", "#"}
PlainValue(x) == x # <<>> /\ NoEdgeSpace(x) /\ ~Has(x, "\n")
Representable(l) ==
    \A e \in EntrySet(l) : PlainSection(e[1]) /\ PlainKey(e[2]) /\ PlainValue(e[3])

\* the file read back holds the entries of the written list and no others
SameEntries ==
    /\ op.result = 0
    /\ ~fault
    /\ EntrySet(back) = EntrySet(list)
    /\ PairsOf(EntrySet(back)) = PairsOf(EntrySet(list))
    /\ NumEntries(back) = NumEntries(list)

\* C1 (as stated): whatever list AddEntryToList built, the file MakeINIFile
\* writes reads back, with repeated GetEntryFromFile calls into a fresh
\* list, as the same (section, key) pairs with the same values.
C1_RoundTripAnyStrings == op.name = "ReadBack" => SameEntries

\* C1 (amended): a list whose strings the file format can hold (no white
\* space at the ends, no newline, no ']' in a section, a non-empty key
\* without '=' that does not start with '[', ';' or '#', a non-empty value)
\* is read back from the file MakeINIFile writes as the same N (section,
\* key) pairs with the same values.
C1_RoundTrip == (op.name = "ReadBack" /\ Representable(list)) => SameEntries

C1_Witness ==
    /\ op.name = "ReadBack"
    /\ Representable(list)
    /\ Len(list) >= 2
    /\ NumEntries(list) >= 3
    /\ EntrySet(back) = EntrySet(list)

\* C2: AddEntryToList(S, K, V2) on a list that holds (S, K) returns 0 and
\* leaves exactly one node for (S, K), whose value is V2; the number of
\* sections and of entries is unchanged and every other node is as before;
\* when the value was V2 already the list is identical to the one before.
C2_UpdateWins ==
    (op.name = "AddEntryToList" /\ NodesOf(op.preList, op.section, op.key) # {}) =>
        /\ op.result = 0
        /\ Cardinality(NodesOf(list, op.section, op.key)) = 1
        /\ \A n \in NodesOf(list, op.section, op.key) :
              list[n[1]].members[n[2]].value = op.value
        /\ Len(list) = Len(op.preList)
        /\ Nodes(list) = Nodes(op.preList)
        /\ \A i \in 1..Len(list) : list[i].section = op.preList[i].section
        /\ \A n \in Nodes(list) \ NodesOf(list, op.section, op.key) :
              list[n[1]].members[n[2]] = op.preList[n[1]].members[n[2]]
        /\ (<<op.section, op.key, op.value>> \in EntrySet(op.preList) => list = op.preList)

C2_Witness ==
    /\ op.name = "AddEntryToList"
    /\ NodesOf(op.preList, op.section, op.key) # {}
    /\ <<op.section, op.key, op.value>> \notin EntrySet(op.preList)
    /\ <<op.section, op.key, op.value>> \in EntrySet(list)
    /\ NumEntries(list) >= 2

\* C3: in every list built by AddEntryToList calls from the empty list no two
\* section nodes have the same name and no two key nodes of one section the
\* same key.
C3_Unique ==
    /\ \A i, j \in 1..Len(list) : list[i].section = list[j].section => i = j
    /\ \A i \in 1..Len(list) : \A a, b \in 1..Len(list[i].members) :
          list[i].members[a].key = list[i].members[b].key => a = b

C3_Witness ==
    /\ op.name = "AddEntryToList"
    /\ nops = MaxAdds
    /\ NodesOf(op.preList, op.section, op.key) # {}
    /\ Len(list) >= 2

(***************************************************************************)
(* The lines of a file, as the claims about the parser speak of them.      *)
(***************************************************************************)
\* the number of the line the character at p belongs to (a newline belongs
\* to the line it ends)
LineNoOf(text, p) == Cardinality({i \in 1..(p - 1) : text[i] = "\n"}) + 1
NumLines(text) == IF text = <<>> THEN 0 ELSE LineNoOf(text, Len(text))

\* line n of the text, without its newline
LineOf(text, n) ==
    LET ps == {p \in 1..Len(text) : LineNoOf(text, p) = n /\ text[p] # "\n"}
    IN IF ps = {} THEN <<>>
       ELSE SubSeq(text, CHOOSE p \in ps : \A q \in ps : p <= q,
                         CHOOSE p \in ps : \A q \in ps : q <= p)

\* the index of the first character that is no white space, 0 without one
FirstNonSpace(line) ==
    LET ps == {i \in 1..Len(line) : ~IsSpace(line[i])}
    IN IF ps = {} THEN 0 ELSE CHOOSE p \in ps : \A q \in ps : p <= q

\* the index of the first c in x, 0 without one
FirstIndex(x, c) ==
    LET ps == {i \in 1..Len(x) : x[i] = c}
    IN IF ps = {} THEN 0 ELSE CHOOSE p \in ps : \A q \in ps : p <= q

LineClass(line) ==
    IF FirstNonSpace(line) = 0 THEN "blank"
    ELSE IF line[FirstNonSpace(line)] \in {";", "#"} THEN "comment"
    ELSE IF line[FirstNonSpace(line)] = "[" THEN "header"
    ELSE "keyvalue"

\* x without the white space at its ends
Trim(x) ==
    LET ps == {i \in 1..Len(x) : ~IsSpace(x[i])}
    IN IF ps = {} THEN <<>>
       ELSE SubSeq(x, CHOOSE p \in ps : \A q \in ps : p <= q,
                      CHOOSE p \in ps : \A q \in ps : q <= p)

LeftOfEq(line) == SubSeq(line, 1, FirstIndex(line, "=") - 1)
RightOfEq(line) == SubSeq(line, FirstIndex(line, "=") + 1, Len(line))

\* the text between '[' and the first ']' of a header line, trimmed
BracketName(line) ==
    Trim(SubSeq(line, FirstNonSpace(line) + 1, FirstIndex(line, "]") - 1))

\* the name the library takes from a header line that has its ']'
HeaderName(line) ==
    HeaderSection(Buf(line), SkipWS(Buf(line), 1),
                  StrChr(Buf(line), SkipWS(Buf(line), 1), "]"))

\* call i read at least one line, the lines FirstLine(i)..LastLine(i)
ReadSome(i) == calls[i].to > calls[i].from
FirstLine(i) == LineNoOf(file, calls[i].from)
LastLine(i) == LineNoOf(file, calls[i].to - 1)

\* every call before call i returned an entry
Iterating(i) == \A j \in 1..(i - 1) : calls[j].result = 1

\* the key = value lines of a text, and the i-th of them
KvLines(text) == {n \in 1..NumLines(text) : LineClass(LineOf(text, n)) = "keyvalue"}
NthKv(text, i) ==
    CHOOSE n \in KvLines(text) : Cardinality({m \in KvLines(text) : m < n}) = i - 1

\* the last header line before line n, 0 without one
HeaderBefore(text, n) ==
    LET hs == {m \in 1..(n - 1) : LineClass(LineOf(text, m)) = "header"}
    IN IF hs = {} THEN 0 ELSE CHOOSE m \in hs : \A q \in hs : q <= m

\* a header without ']' or a key = value line without '='
Malformed(line) ==
    \/ LineClass(line) = "header" /\ ~Has(line, "]")
    \/ LineClass(line) = "keyvalue" /\ ~Has(line, "=")

\* C6: a call that stops at a line that is no comment and no header and holds
\* '=' returns 1 with the key the text left of the first '=' and the value
\* the text right of it, both without white space at their ends.
C6_KeyValueExtraction ==
    \A i \in 1..Len(calls) :
        (/\ ReadSome(i)
         /\ LineClass(calls[i].line) = "keyvalue"
         /\ Has(calls[i].line, "=")) =>
            /\ calls[i].result = 1
            /\ calls[i].entry.key = Trim(LeftOfEq(calls[i].line))
            /\ calls[i].entry.value = Trim(RightOfEq(calls[i].line))
            /\ NoEdgeSpace(calls[i].entry.key)
            /\ NoEdgeSpace(calls[i].entry.value)

\* C7: the section of an entry returned while iterating is the text between
\* '[' and the first ']' of the last header line before it, without white
\* space at its ends (the empty name when that text is empty or white space).
C7_SectionName ==
    \A i \in 1..Len(calls) :
        (/\ Iterating(i)
         /\ calls[i].result = 1
         /\ HeaderBefore(file, LastLine(i)) # 0) =>
            calls[i].entry.section = BracketName(LineOf(file, HeaderBefore(file, LastLine(i))))

\* C8: while every call returns an entry, call i stops at the i-th key =
\* value line of the file (blank lines, comments and headers give no entry),
\* its section is the name the library took from the last header line before
\* that line (comments and blank lines in between change nothing), and the
\* call that returns 0 comes when the file has no further key = value line.
C8_CurrentSection ==
    \A i \in 1..Len(calls) :
        Iterating(i) =>
            /\ calls[i].result = 1 =>
                  /\ Cardinality(KvLines(file)) >= i
                  /\ LastLine(i) = NthKv(file, i)
                  /\ HeaderBefore(file, LastLine(i)) # 0 =>
                        calls[i].entry.section =
                            HeaderName(LineOf(file, HeaderBefore(file, LastLine(i))))
            /\ calls[i].result = 0 => Cardinality(KvLines(file)) = i - 1

C8_Witness ==
    /\ Len(calls) >= 3
    /\ calls[1].result = 1 /\ calls[2].result = 1 /\ calls[3].result = 0
    /\ calls[1].entry.section # NULL
    /\ calls[2].entry.section # NULL
    /\ calls[1].entry.section # calls[2].entry.section
    /\ \E n \in (LastLine(1) + 1)..(LastLine(2) - 1) :
          LineClass(LineOf(file, n)) \in {"comment", "blank"}

\* C9: a call that meets a header line without ']' or a line that is no
\* comment and no header and has no '=' returns -1 with errno EILSEQ and the
\* entry cleared; no such line is passed over by a call.
C9_MalformedLine ==
    \A i \in 1..Len(calls) :
        ReadSome(i) =>
            /\ \A n \in FirstLine(i)..(LastLine(i) - 1) : ~Malformed(LineOf(file, n))
            /\ Malformed(LineOf(file, LastLine(i))) =>
                  /\ calls[i].result = -1
                  /\ calls[i].errno = EILSEQ
                  /\ calls[i].entry = NullEntry

C9_Witness ==
    /\ Len(calls) >= 2
    /\ calls[1].result = 1
    /\ calls[1].entry.section # NULL
    /\ \E i \in 2..Len(calls) :
          /\ ReadSome(i)
          /\ Malformed(LineOf(file, LastLine(i)))
          /\ LineClass(LineOf(file, LastLine(i))) = "keyvalue"
          /\ calls[i].result = -1
          /\ calls[i].entry = NullEntry

\* C10: a call that stops at a key = value line with nothing but white space
\* right of the '=' returns -1 with errno EILSEQ, and no entry is ever
\* returned with the empty value.
C10_EmptyValue ==
    \A i \in 1..Len(calls) :
        /\ (/\ ReadSome(i)
            /\ LineClass(calls[i].line) = "keyvalue"
            /\ Has(calls[i].line, "=")
            /\ Trim(RightOfEq(calls[i].line)) = <<>>) =>
               calls[i].result = -1 /\ calls[i].errno = EILSEQ
        /\ calls[i].result = 1 => calls[i].entry.value # <<>>

\* the line recorded with a call is the line of the file the call stopped at
LineRecorded ==
    \A i \in 1..Len(calls) : ReadSome(i) => calls[i].line = LineOf(file, LastLine(i))

(***************************************************************************)
(* The entries of a file, as the claims about merge and delete speak of    *)
(* them.                                                                   *)
(***************************************************************************)
\* every header has its ']'; every other line that is no comment comes after
\* a header and has a key left and a value right of its '='
WellFormed(text) ==
    \A n \in 1..NumLines(text) :
        /\ ~Malformed(LineOf(text, n))
        /\ LineClass(LineOf(text, n)) = "keyvalue" =>
              /\ HeaderBefore(text, n) # 0
              /\ Trim(LeftOfEq(LineOf(text, n))) # <<>>
              /\ Trim(RightOfEq(LineOf(text, n))) # <<>>

\* the entry of the key = value line n: the name in the brackets of the last
\* header before it, the key and the value
EntryOfLine(text, n) ==
    <<BracketName(LineOf(text, HeaderBefore(text, n))),
      Trim(LeftOfEq(LineOf(text, n))), Trim(RightOfEq(LineOf(text, n)))>>

\* line n is the last line of its (section, key) pair
LastOfPair(text, n) ==
    \A m \in KvLines(text) :
        m > n => <<EntryOfLine(text, m)[1], EntryOfLine(text, m)[2]>>
                    # <<EntryOfLine(text, n)[1], EntryOfLine(text, n)[2]>>

\* the entries of a well-formed file (the last value of a pair that is
\* there more than once)
FileEntries(text) ==
    {EntryOfLine(text, n) : n \in {m \in KvLines(text) : LastOfPair(text, m)}}

\* old with the pairs of new taking the values of new
Merged(old, new) == {e \in old : <<e[1], e[2]>> \notin PairsOf(new)} \cup new

\* old without the pair (section, key)
Without(old, section, key) == {e \in old : ~(e[1] = section /\ e[2] = key)}

\* C4: AddEntryToFile of a list that is not empty on a well-formed file
\* returns 0 and leaves a file whose entries are those of the file before
\* with the entries of the list added, the list's value taken for every pair
\* that is in both.
C4_Merge ==
    (op.name = "AddEntryToFile" /\ list # <<>> /\ WellFormed(op.preFile)) =>
        /\ op.result = 0
        /\ ~fault
        /\ WellFormed(file)
        /\ FileEntries(file) = Merged(FileEntries(op.preFile), EntrySet(list))

\* C5: DeleteEntryFromFile(S, K) on a well-formed file that holds another
\* entry as well returns 0 and leaves a file whose entries are those of the
\* file before except every entry of section S and key K.
C5_Delete ==
    (/\ op.name = "DeleteEntryFromFile"
     /\ WellFormed(op.preFile)
     /\ Without(FileEntries(op.preFile), op.section, op.key) # {}) =>
        /\ op.result = 0
        /\ ~fault
        /\ WellFormed(file)
        /\ FileEntries(file) = Without(FileEntries(op.preFile), op.section, op.key)

\* C11: a call that stops at a key = value line with no header line before
\* it returns -1 with errno EILSEQ, and no call returns 1 with the section
\* of the entry NULL.
C11_NoSection ==
    \A i \in 1..Len(calls) :
        /\ (/\ ReadSome(i)
            /\ LineClass(calls[i].line) = "keyvalue"
            /\ HeaderBefore(file, LastLine(i)) = 0) =>
               calls[i].result = -1 /\ calls[i].errno = EILSEQ
        /\ calls[i].result = 1 => calls[i].entry.section # NULL

\* C12: on a well-formed file with n key = value lines call i returns 1 for
\* i <= n, stopping at the i-th of these lines, and no call returns -1; call
\* n + 1 and every later call on the stream return 0 without an error code
\* and with the section, key and value of the entry NULL.
C12_Iterator ==
    WellFormed(file) =>
        \A i \in 1..Len(calls) :
            /\ calls[i].result # -1
            /\ i <= Cardinality(KvLines(file)) =>
                  /\ calls[i].result = 1
                  /\ LastLine(i) = NthKv(file, i)
            /\ i > Cardinality(KvLines(file)) =>
                  /\ calls[i].result = 0
                  /\ calls[i].errno = NoErr
                  /\ calls[i].entry = NullEntry

C12_Witness ==
    /\ WellFormed(file)
    /\ Cardinality(KvLines(file)) >= 2
    /\ Len(calls) = Cardinality(KvLines(file)) + 1 + MaxEndCalls
    /\ calls[1].result = 1
    /\ calls[1].entry.section # calls[2].entry.section
    /\ calls[Len(calls)].result = 0
    /\ entry = NullEntry

(***************************************************************************)
(* The text MakeINIFile writes and the order of the list.                  *)
(***************************************************************************)
\* the line of the written file that holds the header of section node i
HeaderLineNo(l, i) == Cardinality({n \in Nodes(l) : n[1] < i}) + 2 * (i - 1) + 1

\* C13: the file MakeINIFile writes for a list built by AddEntryToList calls
\* has, for every section node in turn, the line [section], one line
\* "key = value" for every key node of the section, and one empty line, and
\* nothing else; no two section nodes have the same name, so no header is
\* written twice.
C13_Serializer ==
    (op.name = "MakeINIFile" /\ op.result = 0) =>
        /\ file # <<>>
        /\ file[Len(file)] = "\n"
        /\ NumLines(file) = NumEntries(list) + 2 * Len(list)
        /\ \A i \in 1..Len(list) :
              /\ LineOf(file, HeaderLineNo(list, i)) = <<"[">> \o list[i].section \o <<"]">>
              /\ \A j \in 1..Len(list[i].members) :
                    LineOf(file, HeaderLineNo(list, i) + j) =
                        list[i].members[j].key \o <<" ", "=", " ">>
                            \o list[i].members[j].value
              /\ LineOf(file, HeaderLineNo(list, i) + Len(list[i].members) + 1) = <<>>
        /\ \A i, j \in 1..Len(list) : list[i].section = list[j].section => i = j

C13_Witness ==
    /\ op.name = "MakeINIFile"
    /\ op.result = 0
    /\ Len(calls) = 3
    /\ calls[1].section = calls[3].section
    /\ calls[1].section # calls[2].section
    /\ Len(list) = 2
    /\ Len(list[1].members) = 2
    /\ NumLines(file) = 7

\* the successful AddEntryToList calls made for a section, and for a key of it
AddsOf(section) ==
    {i \in 1..Len(calls) : calls[i].result = 0 /\ calls[i].section = section}
AddsOfKey(section, key) == {i \in AddsOf(section) : calls[i].key = key}
Least(S) == CHOOSE x \in S : \A y \in S : x <= y

HeaderLines(text) ==
    {n \in 1..NumLines(text) : LineClass(LineOf(text, n)) = "header"}

\* the sections of a file, and the first header line of a section
SectionsOf(text) == {BracketName(LineOf(text, n)) : n \in HeaderLines(text)}
FirstHeader(text, section) ==
    Least({n \in HeaderLines(text) : BracketName(LineOf(text, n)) = section})

\* the keys of a section of a file, and the first line of a key
KeysOf(text, section) ==
    {EntryOfLine(text, n)[2] :
        n \in {m \in KvLines(text) : EntryOfLine(text, m)[1] = section}}
FirstKeyLine(text, section, key) ==
    Least({n \in KvLines(text) :
              EntryOfLine(text, n)[1] = section /\ EntryOfLine(text, n)[2] = key})

\* C15: after a successful AddEntryToFile on a well-formed file the sections
\* of the file before are in the file after in the same order of first
\* appearance, every other section of the file after comes after all of
\* them, and in a section of the file before the keys it had are in the same
\* order of first appearance with every other key of the section after them.
C15_MergeOrder ==
    (op.name = "AddEntryToFile" /\ op.result = 0 /\ WellFormed(op.preFile)) =>
        /\ \A s \in SectionsOf(op.preFile) : s \in SectionsOf(file)
        /\ \A s, t \in SectionsOf(op.preFile) :
              (s \in SectionsOf(file) /\ t \in SectionsOf(file)
                 /\ FirstHeader(op.preFile, s) < FirstHeader(op.preFile, t)) =>
                    FirstHeader(file, s) < FirstHeader(file, t)
        /\ \A s \in SectionsOf(file) \ SectionsOf(op.preFile) :
              \A t \in SectionsOf(op.preFile) \cap SectionsOf(file) :
                  FirstHeader(file, t) < FirstHeader(file, s)
        /\ \A s \in SectionsOf(op.preFile) :
              /\ \A j, k \in KeysOf(op.preFile, s) :
                    FirstKeyLine(op.preFile, s, j) < FirstKeyLine(op.preFile, s, k) =>
                        /\ j \in KeysOf(file, s)
                        /\ k \in KeysOf(file, s)
                        /\ FirstKeyLine(file, s, j) < FirstKeyLine(file, s, k)
              /\ \A k \in KeysOf(file, s) \ KeysOf(op.preFile, s) :
                    \A j \in KeysOf(op.preFile, s) \cap KeysOf(file, s) :
                        FirstKeyLine(file, s, j) < FirstKeyLine(file, s, k)

(***************************************************************************)
(* The byte-wise order of strings.                                         *)
(***************************************************************************)
\* the byte of a character (ASCII)
ByteOf(c) ==
    CASE c = "\n" -> 10
      [] c = "\r" -> 13
      [] c = " " -> 32
      [] c = "#" -> 35
      [] c = "1" -> 49
      [] c = "3" -> 51
      [] c = "9" -> 57
      [] c = ";" -> 59
      [] c = "=" -> 61
      [] c = "[" -> 91
      [] c = "]" -> 93
      [] c = "a" -> 97
      [] c = "b" -> 98
      [] c = "j" -> 106
      [] c = "k" -> 107
      [] c = "x" -> 120
      [] c = "y" -> 121
      [] c = "z" -> 122

\* a is before b in lexicographic byte-wise order
RECURSIVE StrLess(_, _)
StrLess(a, b) ==
    IF b = <<>> THEN FALSE
    ELSE IF a = <<>> THEN TRUE
    ELSE IF a[1] # b[1] THEN ByteOf(a[1]) < ByteOf(b[1])
    ELSE StrLess(Tail(a), Tail(b))

PairLeq(s, j, t, k) == StrLess(s, t) \/ (s = t /\ (j = k \/ StrLess(j, k)))

\* node n is visited before node m in a traversal of the list
Before(n, m) == n[1] < m[1] \/ (n[1] = m[1] /\ n[2] < m[2])

\* C16: the traversal of the list, section node by section node and key node
\* by key node, is non-decreasing in the lexicographic byte-wise order of
\* (section, key).
C16_Sorted ==
    \A n, m \in Nodes(list) :
        Before(n, m) =>
            PairLeq(list[n[1]].section, list[n[1]].members[n[2]].key,
                    list[m[1]].section, list[m[1]].members[m[2]].key)

\* C17: DeleteEntryFromFile(S, K) on a well-formed file where K is the only
\* key of section S and another section holds an entry returns 0 and leaves
\* a file that still has a header of section S, with no key under it.
C17_EmptySectionKept ==
    (/\ op.name = "DeleteEntryFromFile"
     /\ WellFormed(op.preFile)
     /\ KeysOf(op.preFile, op.section) = {op.key}
     /\ \E t \in SectionsOf(op.preFile) :
           t # op.section /\ KeysOf(op.preFile, t) # {}) =>
        /\ op.result = 0
        /\ op.section \in SectionsOf(file)
        /\ KeysOf(file, op.section) = {}

\* the file holds a line with a syntax error
SyntaxError(text) == \E n \in 1..NumLines(text) : Malformed(LineOf(text, n))

\* the operation got a list, a section and a key, and its read phase fails:
\* the file cannot be opened or holds a syntax error
ReadPhaseFails ==
    /\ op.name \in {"AddEntryToFile", "DeleteEntryFromFile"}
    /\ op.name = "AddEntryToFile" => list # <<>>
    /\ op.preFile = NoFile \/ SyntaxError(op.preFile)

\* C18: an AddEntryToFile or DeleteEntryFromFile whose read phase fails
\* returns -1 and leaves the file as it was.
C18_ReadFailureUntouched ==
    ReadPhaseFails => (op.result = -1 /\ ~fault /\ file = op.preFile)

\* no key node of the list has a NULL key or a NULL value
NoNullNode(l) ==
    \A n \in Nodes(l) :
        l[n[1]].members[n[2]].key # NULL /\ l[n[1]].members[n[2]].value # NULL

\* C19: a call of AddEntryToList in which a malloc returns NULL returns
\* non-zero and leaves the list as it was before the call, and no call
\* leaves a node with a NULL key or value.
C19_InsertAtomic ==
    /\ (op.name = "AddEntryToList" /\ op.fail > 0) =>
          (op.result # 0 /\ list = op.preList)
    /\ NoNullNode(list)

(***************************************************************************)
(* Two calls side by side.                                                 *)
(***************************************************************************)
\* the list the read loop of call q builds from the entries it has seen
RECURSIVE StoreOf(_, _, _)
StoreOf(q, l, i) ==
    IF i > Len(q.seen) THEN l
    ELSE IF q.name = "AddEntryToFile"
            \/ q.seen[i].section # q.section \/ q.seen[i].key # q.key
    THEN StoreOf(q, AddEntryToList(l, q.seen[i].section, q.seen[i].key,
                                   q.seen[i].value).list, i + 1)
    ELSE StoreOf(q, l, i + 1)

\* the list of call q comes from the entries q itself has read and, once it
\* writes, from its own argument
OwnStore(q) ==
    IF q.name = "AddEntryToFile" /\ (q.pc = "write" \/ (q.pc = "done" /\ q.result = 0 /\ ~q.fault))
    THEN q.store = MergeLoop(StoreOf(q, <<>>, 1), q.list, 1).list
    ELSE q.store = StoreOf(q, <<>>, 1)

Writing == \E p \in 1..2 : procs[p].pc = "write"
AllDone == \A p \in 1..2 : procs[p].pc = "done"

\* C20 as claimed: once both calls are done and one of them wrote, the file
\* is the list of the call that wrote last as MakeINIFile writes it, and is
\* well-formed.
C20_LastWriterAlways ==
    (AllDone /\ op.last # 0) =>
        /\ file = WriteSections(procs[op.last].store, 1)
        /\ WellFormed(file)

\* C20: the list of each call holds what that call itself read and was
\* given; when no call opened or wrote the file while the other was between
\* its fopen for writing and its last fprintf, the file is, whenever no
\* call is writing, the list of the call that wrote last as MakeINIFile
\* writes it, and is well-formed when the strings of that list are ones the
\* file format can hold.
C20_LastWriterWins ==
    /\ \A p \in 1..2 : OwnStore(procs[p])
    /\ (op.last # 0 /\ ~op.overlap /\ ~Writing) =>
          /\ file = WriteSections(procs[op.last].store, 1)
          /\ Representable(procs[op.last].store) => WellFormed(file)

\* both calls wrote, one after the other, the second of them had opened the
\* file for reading before the first one was done writing, and their lists differ
C20_Witness ==
    /\ AllDone
    /\ \A p \in 1..2 : procs[p].result = 0 /\ ~procs[p].fault
    /\ op.raced
    /\ ~op.overlap
    /\ procs[1].store # procs[2].store
    /\ Representable(procs[op.last].store)
    /\ file = WriteSections(procs[op.last].store, 1)

\* C21: DeleteEntryFromFile(S, K) on a well-formed file all of whose entries
\* are of section S and key K returns 0 and leaves a file with no key = value
\* line and no header.
C21_DeleteToEmpty ==
    (/\ op.name = "DeleteEntryFromFile"
     /\ WellFormed(op.preFile)
     /\ FileEntries(op.preFile) # {}
     /\ Without(FileEntries(op.preFile), op.section, op.key) = {}) =>
        /\ op.result = 0
        /\ ~fault
        /\ KvLines(file) = {}
        /\ HeaderLines(file) = {}

\* the call got past opening the file
PastOpening ==
    /\ op.name \in {"AddEntryToFile", "DeleteEntryFromFile"}
    /\ op.name = "AddEntryToFile" => list # <<>>
    /\ op.preFile # NoFile

\* C22: an AddEntryToFile or DeleteEntryFromFile that got past opening the
\* file returns without the dereference of a NULL pointer; FreeList was
\* applied once to the working list when there is one and was not called on
\* NULL when there is none.
C22_StoreReleased ==
    PastOpening =>
        /\ ~fault
        /\ op.free # "NULL"
        /\ op.held => op.free = "list"
        /\ ~op.held => op.free = "none"

(***************************************************************************)
(* The memory of the parser.                                               *)
(***************************************************************************)
\* the blocks of the heap of the last call that are of a kind
BlocksOf(kind) ==
    {b \in 1..Len(op.mem.heap.blocks) : op.mem.heap.blocks[b].kind = kind}

\* the strings the entry points to at the return
HeldBlocks ==
    {op.mem.heap.entry.section, op.mem.heap.entry.key, op.mem.heap.entry.value} \ {0}

\* C23: at every return of GetEntryFromFile every line buffer of the call was
\* freed once, free() got no pointer into a block, no field of the entry
\* points into a line buffer, a string the entry does not hold was freed
\* once and one it holds was not freed; at a return of 0 or -1 the entry
\* holds no string.
C23_ParserMemory ==
    op.name = "GetEntryFromFile" =>
        /\ \A b \in BlocksOf("line") : op.mem.heap.blocks[b].frees = 1
        /\ ~op.mem.heap.bad
        /\ \A p \in HeldBlocks : p > 0
        /\ \A b \in BlocksOf("string") :
              op.mem.heap.blocks[b].frees = IF b \in HeldBlocks THEN 0 ELSE 1
        /\ op.result \in {0, -1} => HeldBlocks = {}

====
